---- MODULE Spec2Model ----
(***************************************************************************)
(* Model of the pETI sync server: peti_server/sync_script.py (the update  *)
(* and cleanup actions) and peti_server/models.py (the API client of a    *)
(* SyncFolder).                                                            *)
(*                                                                         *)
(* A run is one invocation of main(): the inputs (configuration, catalog  *)
(* tables, local mirrors on disk, the typed answer) are drawn in Init and  *)
(* never change; the actions are the steps of the main thread and of the   *)
(* worker threads of the ThreadPoolExecutor.  A folder is modelled by its  *)
(* id; every remote call is two steps (issued, returned), so that calls of *)
(* different workers interleave.                                           *)
(* The preparation of the database (get_eti_database and the download of   *)
(* the initial archive) has succeeded when a run starts: the catalog rows  *)
(* are given.                                                              *)
(***************************************************************************)
EXTENDS Integers, Sequences, FiniteSets, TLC

(* ---------------------------------------------------------------- bounds *)
\* Number of rows of the catalog (games, tools and discarded together).
MaxRows == 2
\* Number of entries of the "folders" table of the configuration.
MaxFolders == 2
\* Threads of the ThreadPoolExecutor (max_workers).
MaxWorkers == 2
\* Number of rows of the catalog in the runs that fill the pool.
MaxUnits == 3

\* Folder ids occurring in the configuration and in the catalog.
Ids == {"a", "b"}

\* Sequences over S of length at most n.
RECURSIVE SeqsUpTo(_, _)
SeqsUpTo(S, n) ==
    IF n = 0 THEN {<<>>}
    ELSE LET shorter == SeqsUpTo(S, n - 1)
         IN  shorter \cup {Append(s, x) : s \in {t \in shorter : Len(t) = n - 1}, x \in S}

Range(s) == {s[k] : k \in DOMAIN s}

\* The keys of a mapping are distinct.
NoRepeat(s) == \A j, k \in DOMAIN s : j # k => s[j] # s[k]

(* ------------------------------------------------------------ API client *)
\* ApiMethod values used by a SyncFolder.
Methods == {"add_folder", "set_folder_prefs", "remove_folder"}

\* What requests.get / raise_for_status / response.json can produce: a 2xx
\* response with error code 0, with a non-zero error code, or with a body
\* that is not JSON; a non-2xx status; no response.
Outcomes == {"ok", "app_error", "invalid_json", "http_error", "connection_error"}

TransportFailures == {"http_error", "connection_error"}

\* The outcomes that raise a requests.exceptions.RequestException:
\* ConnectionError, HTTPError (raise_for_status) and JSONDecodeError
\* (response.json).
RequestExceptions == TransportFailures \cup {"invalid_json"}

\* SyncFolder._make_sync_request: "True" / "False" are the returned booleans,
\* "raise" an exception leaving the method.
make_sync_request_unguarded(outcome) ==
    IF outcome \in RequestExceptions THEN "raise" ELSE "True"

make_sync_request_checks_error(outcome) ==
    IF outcome \in RequestExceptions \cup {"app_error"} THEN "False" ELSE "True"

make_sync_request(outcome) ==
    IF outcome \in RequestExceptions THEN "False" ELSE "True"

\* The remote service: a request answered by the API (a JSON response, with
\* or without an error code) has been processed, and processing is
\* idempotent; set_folder_prefs registers nothing.
remote_after(registered, m, id, outcome) ==
    IF outcome \in RequestExceptions THEN registered
    ELSE IF m = "add_folder" THEN registered \cup {id}
    ELSE IF m = "remove_folder" THEN registered \ {id}
    ELSE registered

(* ------------------------------------------------------------- variables *)
VARIABLES
    action,                \* args.action
    keep_discarded_games,  \* config.keep_discarded_games
    folders,               \* keys of config.get_folders(), in order
    game_deny_list,        \* config.game_deny_list
    games,                 \* ids of the rows get_games_from_db reads: games, then tools
    discarded,             \* ids of the rows of the discarded table, in order
    response,              \* the answer typed at the cleanup prompt
    mirror,                \* ids whose directory <sync_dir>/<id> exists
    remote,                \* ids of the folders registered in the remote service
    folder,                \* the SyncFolder of a single request (API client alone)
    request,               \* the request that folder built, and its result
    pc,                    \* position of the main thread
    i,                     \* index of the sequential loop the main thread is in
    system_folders, allow_list, deny_list, game_folders,
    system_ops,            \* one record per entry of system_folders
    deny_ops,              \* one record per entry of deny_list
    futures                \* one record per unit of work submitted to the pool

inputs == <<action, keep_discarded_games, folders, game_deny_list, games, discarded,
            response>>
lists == <<system_folders, allow_list, deny_list, game_folders>>
api == <<folder, request>>
vars == <<inputs, api, remote, mirror, pc, i, lists, system_ops, deny_ops, futures>>

(* -------------------------------------------------------- units of work *)
\* The calls of one folder, in program order.
system_body == <<"add_folder">>
update_process_folder_prefs_first == <<"set_folder_prefs", "add_folder">>
update_process_folder == <<"add_folder", "set_folder_prefs">>
deny_body == <<"remove_folder", "rmtree">>
cleanup_process_folder_rmtree_first == <<"rmtree", "remove_folder">>
cleanup_process_folder == <<"remove_folder", "rmtree">>

\* A unit of work that has not started.
NewOp ==
    [pc |-> "pending", step |-> 1,
     calls |-> [m \in Methods |-> 0],
     result |-> [m \in Methods |-> "none"],
     rmtree |-> 0]

\* The unit moves on to its next statement.
Advance(op, body) ==
    [op EXCEPT !.step = @ + 1,
               !.pc = IF op.step + 1 > Len(body) THEN "done" ELSE "ready"]

\* The request of method m is sent.
Call(op, m) == [op EXCEPT !.pc = "call", !.calls[m] = @ + 1]

\* A unit that would issue a failed call a second time.
Return_retry(op, body, r) ==
    IF r = "raise" THEN [op EXCEPT !.result[body[op.step]] = r, !.pc = "raised"]
    ELSE IF r = "False" /\ op.calls[body[op.step]] < 2
         THEN [op EXCEPT !.result[body[op.step]] = r, !.pc = "ready"]
         ELSE Advance([op EXCEPT !.result[body[op.step]] = r], body)

\* A unit that would stop at its first failed call.
Return_stop_on_failure(op, body, r) ==
    IF r = "raise" THEN [op EXCEPT !.result[body[op.step]] = r, !.pc = "raised"]
    ELSE IF r = "False" THEN [op EXCEPT !.result[body[op.step]] = r, !.pc = "done"]
         ELSE Advance([op EXCEPT !.result[body[op.step]] = r], body)

\* _make_sync_request returns r or raises.
Return(op, body, r) ==
    IF r = "raise" THEN [op EXCEPT !.result[body[op.step]] = r, !.pc = "raised"]
    ELSE Advance([op EXCEPT !.result[body[op.step]] = r], body)

Finished(op) == op.pc \in {"done", "raised"}
Executing(op) == op.pc \in {"ready", "call", "rmtree"}

AtCall(op, body) == op.pc = "ready" /\ body[op.step] \in Methods
AtExists(op, body) == op.pc = "ready" /\ body[op.step] = "rmtree"

(* ------------------------------------------------------------ catalog *)
\* get_games_from_db: one SyncFolder per row, in the order of the rows.
get_games_from_db == games

\* get_discarded_from_db: the rows of discarded.
get_discarded_from_db == discarded

\* set(config.game_deny_list)
denied_folder_ids == game_deny_list

moved_to_deny == SelectSeq(get_games_from_db, LAMBDA f : f \in denied_folder_ids)

\* allow_list after the denylist filter.
filtered_allow_list ==
    SelectSeq(get_games_from_db, LAMBDA f : f \notin denied_folder_ids)

\* The moved folders put in front of the discard-rows.
extended_deny_list_moved_first == moved_to_deny \o get_discarded_from_db

\* deny_list after the moved folders are appended.
extended_deny_list == get_discarded_from_db \o moved_to_deny

\* The folders cleanup removes.
cleanup_game_folders_games_only == get_games_from_db
cleanup_game_folders == get_games_from_db \o get_discarded_from_db

\* str.lower on the answers the model draws.
Responses == {"yes", "YES", "y", "no"}
lower_abbrev(r) == IF r \in {"yes", "YES", "y"} THEN "yes" ELSE r
lower(r) == IF r \in {"yes", "YES"} THEN "yes" ELSE r

(* --------------------------------------------------------------- pool *)
\* ThreadPoolExecutor: the queue is first in first out, and at most
\* MaxWorkers units run at a time.
PoolMayStart_unbounded(fs, u) ==
    /\ fs[u].pc = "pending"
    /\ \A v \in 1..(u - 1) : fs[v].pc # "pending"

PoolMayStart(fs, u) ==
    /\ fs[u].pc = "pending"
    /\ \A v \in 1..(u - 1) : fs[v].pc # "pending"
    /\ Cardinality({v \in DOMAIN fs : Executing(fs[v])}) < MaxWorkers

\* Line 127: if not config.keep_discarded_games.
deny_phase_skipped_never == FALSE
deny_phase_skipped == keep_discarded_games

\* Leaving the with block: every submitted unit has finished.
PoolIdle_nowait(fs) == TRUE
PoolIdle(fs) == \A u \in DOMAIN fs : Finished(fs[u])

(* --------------------------------------------------------------- Init *)
\* No single request is followed in a run of main().
NoFolder == [name |-> "", id |-> "", secret |-> ""]
NoRequest ==
    [stage |-> "none", method |-> "", url |-> <<>>, outcome |-> "none", result |-> "none"]

\* The catalog: the rows get_games_from_db and get_discarded_from_db read.
Catalogs ==
    {c \in SeqsUpTo(Ids, MaxRows) \X SeqsUpTo(Ids, MaxRows) :
        Len(c[1]) + Len(c[2]) <= MaxRows}

\* What every run starts from, whatever the action.
Start ==
    /\ folders \in {s \in SeqsUpTo(Ids, MaxFolders) : NoRepeat(s)}
    /\ \E c \in Catalogs : games = c[1] /\ discarded = c[2]
    /\ mirror \in SUBSET Ids
    /\ folder = NoFolder
    /\ request = NoRequest
    /\ pc = "start"
    /\ i = 1
    /\ system_folders = <<>>
    /\ allow_list = <<>>
    /\ deny_list = <<>>
    /\ game_folders = <<>>
    /\ system_ops = <<>>
    /\ deny_ops = <<>>
    /\ futures = <<>>

\* main() with action "update": no prompt is shown.
Update ==
    /\ action = "update"
    /\ keep_discarded_games \in BOOLEAN
    /\ game_deny_list \in SUBSET Ids
    /\ response = ""
    /\ Start

\* An update against a remote service that has no folder yet; the program
\* never reads the state of the service.
Init ==
    /\ Update
    /\ remote = {}

\* An update against a remote service in any state.
InitRemote ==
    /\ Update
    /\ remote \in SUBSET Ids

\* main() with action "cleanup": cleanup reads neither the flag nor the
\* denylist. The remote service has no folder registered, or all of them.
InitCleanup ==
    /\ action = "cleanup"
    /\ keep_discarded_games = FALSE
    /\ game_deny_list = {}
    /\ response \in Responses
    /\ remote \in {{}, Ids}
    /\ Start

(* ------------------------------------------------ update_game_folders *)
\* Lines 72-78: one SyncFolder per entry of the configuration.
UpdateStart ==
    /\ pc = "start" /\ action = "update"
    /\ system_folders' = folders
    /\ system_ops' = [k \in DOMAIN folders |-> NewOp]
    /\ i' = 1
    /\ pc' = "system"
    /\ UNCHANGED <<inputs, api, remote, mirror, allow_list, deny_list, game_folders, deny_ops, futures>>

\* Line 81: folder.sync() is called.
SystemSync ==
    /\ pc = "system" /\ i <= Len(system_folders)
    /\ system_ops' = [system_ops EXCEPT ![i] = Call(@, system_body[1])]
    /\ pc' = "system_call"
    /\ UNCHANGED <<inputs, api, remote, mirror, i, lists, deny_ops, futures>>

\* Line 81: folder.sync() returns; its value is dropped.
SystemSyncReturn ==
    /\ pc = "system_call"
    /\ \E outcome \in Outcomes :
         LET op == Return(system_ops[i], system_body, make_sync_request(outcome))
         IN  /\ system_ops' = [system_ops EXCEPT ![i] = op]
             /\ pc' = IF op.pc = "raised" THEN "aborted" ELSE "system"
             /\ remote' = remote_after(remote, system_body[1], system_folders[i], outcome)
    /\ i' = i + 1
    /\ UNCHANGED <<inputs, api, mirror, lists, deny_ops, futures>>

\* Lines 87-102: the two lists.
PrepareLists ==
    /\ pc = "system" /\ i > Len(system_folders)
    /\ allow_list' = filtered_allow_list
    /\ deny_list' = extended_deny_list
    /\ deny_ops' = [k \in DOMAIN extended_deny_list |-> NewOp]
    /\ futures' = <<>>
    /\ pc' = "allow"
    /\ UNCHANGED <<inputs, api, remote, mirror, i, system_folders, game_folders, system_ops>>

\* Lines 115-117: executor.submit(process_folder, folder), one folder at a time.
AllowSubmit ==
    /\ pc = "allow" /\ Len(futures) < Len(allow_list)
    /\ futures' = Append(futures, NewOp)
    /\ UNCHANGED <<inputs, api, remote, mirror, pc, i, lists, system_ops, deny_ops>>

\* Lines 109-111: a worker takes the unit from the queue and issues its first
\* call, or a running unit issues its next call.
AllowCall(u) ==
    /\ action = "update"
    /\ PoolMayStart(futures, u) \/ AtCall(futures[u], update_process_folder)
    /\ futures' = [futures EXCEPT ![u] = Call(@, update_process_folder[@.step])]
    /\ UNCHANGED <<inputs, api, remote, mirror, pc, i, lists, system_ops, deny_ops>>

\* Lines 110-111: the call returns; its value is dropped.
AllowReturn(u) ==
    /\ action = "update" /\ futures[u].pc = "call"
    /\ \E outcome \in Outcomes :
         /\ futures' = [futures EXCEPT
                         ![u] = Return(@, update_process_folder, make_sync_request(outcome))]
         /\ remote' = remote_after(remote, update_process_folder[futures[u].step],
                                   allow_list[u], outcome)
    /\ UNCHANGED <<inputs, api, mirror, pc, i, lists, system_ops, deny_ops>>

\* Lines 119-127: as_completed and the end of the with block, then the flag.
AllowJoin ==
    /\ pc = "allow" /\ Len(futures) = Len(allow_list)
    /\ PoolIdle(futures)
    /\ pc' = IF deny_phase_skipped THEN "done" ELSE "deny"
    /\ i' = 1
    /\ UNCHANGED <<inputs, api, remote, mirror, lists, system_ops, deny_ops, futures>>

\* Line 134: folder.remove() is called.
DenyRemove ==
    /\ pc = "deny" /\ i <= Len(deny_list)
    /\ deny_ops' = [deny_ops EXCEPT ![i] = Call(@, deny_body[1])]
    /\ pc' = "deny_call"
    /\ UNCHANGED <<inputs, api, remote, mirror, i, lists, system_ops, futures>>

\* Line 134: folder.remove() returns; its value is dropped.
DenyRemoveReturn ==
    /\ pc = "deny_call"
    /\ \E outcome \in Outcomes :
         LET op == Return(deny_ops[i], deny_body, make_sync_request(outcome))
         IN  /\ deny_ops' = [deny_ops EXCEPT ![i] = op]
             /\ pc' = IF op.pc = "raised" THEN "aborted" ELSE "deny_exists"
             /\ remote' = remote_after(remote, deny_body[1], deny_list[i], outcome)
    /\ UNCHANGED <<inputs, api, mirror, i, lists, system_ops, futures>>

\* Lines 137-138: os.path.exists(folder_path).
DenyExists ==
    /\ pc = "deny_exists"
    /\ IF deny_list[i] \in mirror
       THEN /\ deny_ops' = [deny_ops EXCEPT ![i].pc = "rmtree"]
            /\ pc' = "deny_rmtree"
            /\ i' = i
       ELSE /\ deny_ops' = [deny_ops EXCEPT ![i] = Advance(@, deny_body)]
            /\ pc' = "deny"
            /\ i' = i + 1
    /\ UNCHANGED <<inputs, api, remote, mirror, lists, system_ops, futures>>

\* Line 139: shutil.rmtree(folder_path) deletes the tree or raises; nothing
\* around it catches.
DenyRmtree ==
    /\ pc = "deny_rmtree"
    /\ \E deleted \in BOOLEAN :
         IF deleted /\ deny_list[i] \in mirror
         THEN /\ mirror' = mirror \ {deny_list[i]}
              /\ deny_ops' = [deny_ops EXCEPT ![i] = Advance([@ EXCEPT !.rmtree = @ + 1], deny_body)]
              /\ pc' = "deny"
              /\ i' = i + 1
         ELSE /\ mirror' = mirror
              /\ deny_ops' = [deny_ops EXCEPT ![i].rmtree = @ + 1, ![i].pc = "raised"]
              /\ pc' = "aborted"
              /\ i' = i
    /\ UNCHANGED <<inputs, api, remote, lists, system_ops, futures>>

\* Lines 141-142.
UpdateEnd ==
    /\ pc = "deny" /\ i > Len(deny_list)
    /\ pc' = "done"
    /\ UNCHANGED <<inputs, api, remote, mirror, i, lists, system_ops, deny_ops, futures>>

(* ------------------------------------------------------------ cleanup *)
\* Lines 152-158: the prompt, and on "yes" the list of folders to remove.
CleanupConfirm ==
    /\ pc = "start" /\ action = "cleanup"
    /\ IF lower(response) = "yes"
       THEN /\ game_folders' = cleanup_game_folders
            /\ pc' = "cleanup"
       ELSE /\ game_folders' = game_folders
            /\ pc' = "done"
    /\ UNCHANGED <<inputs, api, remote, mirror, i, system_folders, allow_list, deny_list,
                   system_ops, deny_ops, futures>>

\* Lines 173-176: executor.submit(process_folder, folder), one folder at a time.
CleanupSubmit ==
    /\ pc = "cleanup" /\ Len(futures) < Len(game_folders)
    /\ futures' = Append(futures, NewOp)
    /\ UNCHANGED <<inputs, api, remote, mirror, pc, i, lists, system_ops, deny_ops>>

\* Lines 163-164: a worker takes the unit from the queue and calls
\* folder.remove().
CleanupRemove(u) ==
    /\ action = "cleanup"
    /\ \/ PoolMayStart(futures, u) /\ cleanup_process_folder[1] \in Methods
       \/ AtCall(futures[u], cleanup_process_folder)
    /\ futures' = [futures EXCEPT ![u] = Call(@, cleanup_process_folder[@.step])]
    /\ UNCHANGED <<inputs, api, remote, mirror, pc, i, lists, system_ops, deny_ops>>

\* Line 164: folder.remove() returns; its value is dropped.
CleanupRemoveReturn(u) ==
    /\ action = "cleanup" /\ futures[u].pc = "call"
    /\ \E outcome \in Outcomes :
         /\ futures' = [futures EXCEPT
                         ![u] = Return(@, cleanup_process_folder, make_sync_request(outcome))]
         /\ remote' = remote_after(remote, cleanup_process_folder[futures[u].step],
                                   game_folders[u], outcome)
    /\ UNCHANGED <<inputs, api, mirror, pc, i, lists, system_ops, deny_ops>>

\* Lines 167-168: os.path.exists(folder_path).
CleanupExists(u) ==
    /\ action = "cleanup"
    /\ \/ PoolMayStart(futures, u) /\ cleanup_process_folder[1] = "rmtree"
       \/ AtExists(futures[u], cleanup_process_folder)
    /\ futures' = [futures EXCEPT
                     ![u] = IF game_folders[u] \in mirror
                            THEN [@ EXCEPT !.pc = "rmtree"]
                            ELSE Advance(@, cleanup_process_folder)]
    /\ UNCHANGED <<inputs, api, remote, mirror, pc, i, lists, system_ops, deny_ops>>

\* Line 169: shutil.rmtree(folder_path) deletes the tree or raises (also when
\* another worker deleted the directory since the exists check); the
\* exception is stored in the future.
CleanupRmtree(u) ==
    /\ action = "cleanup" /\ futures[u].pc = "rmtree"
    /\ \E deleted \in BOOLEAN :
         IF deleted /\ game_folders[u] \in mirror
         THEN /\ mirror' = mirror \ {game_folders[u]}
              /\ futures' = [futures EXCEPT
                   ![u] = Advance([@ EXCEPT !.rmtree = @ + 1], cleanup_process_folder)]
         ELSE /\ mirror' = mirror
              /\ futures' = [futures EXCEPT ![u].rmtree = @ + 1, ![u].pc = "raised"]
    /\ UNCHANGED <<inputs, api, remote, pc, i, lists, system_ops, deny_ops>>

\* Lines 178-184: as_completed, future.result() in a try, the end of the with
\* block.
CleanupJoin ==
    /\ pc = "cleanup" /\ Len(futures) = Len(game_folders)
    /\ PoolIdle(futures)
    /\ pc' = "done"
    /\ UNCHANGED <<inputs, api, remote, mirror, i, lists, system_ops, deny_ops, futures>>

(* ------------------------------------------------------------- system *)
\* A run of update_game_folders.
Next ==
    \/ UpdateStart
    \/ SystemSync
    \/ SystemSyncReturn
    \/ PrepareLists
    \/ AllowSubmit
    \/ \E u \in DOMAIN futures : AllowCall(u)
    \/ \E u \in DOMAIN futures : AllowReturn(u)
    \/ AllowJoin
    \/ DenyRemove
    \/ DenyRemoveReturn
    \/ DenyExists
    \/ DenyRmtree
    \/ UpdateEnd

Spec == Init /\ [][Next]_vars

SpecRemote == InitRemote /\ [][Next]_vars

\* Updates with more catalog rows than the pool has threads: one system
\* folder, the deny phase not skipped, and every mirror or none on disk.
InitPool ==
    /\ action = "update"
    /\ keep_discarded_games = FALSE
    /\ game_deny_list \in SUBSET Ids
    /\ response = ""
    /\ remote = {}
    /\ folders = <<"a">>
    /\ \E c \in SeqsUpTo(Ids, MaxUnits) \X SeqsUpTo(Ids, MaxUnits) :
         /\ Len(c[1]) + Len(c[2]) <= MaxUnits
         /\ games = c[1] /\ discarded = c[2]
    /\ mirror \in {{}, Ids}
    /\ folder = NoFolder /\ request = NoRequest
    /\ pc = "start" /\ i = 1
    /\ system_folders = <<>> /\ allow_list = <<>> /\ deny_list = <<>>
    /\ game_folders = <<>> /\ system_ops = <<>> /\ deny_ops = <<>> /\ futures = <<>>

SpecPool == InitPool /\ [][Next]_vars

\* A run of cleanup.
NextCleanup ==
    \/ CleanupConfirm
    \/ CleanupSubmit
    \/ \E u \in DOMAIN futures : CleanupRemove(u)
    \/ \E u \in DOMAIN futures : CleanupRemoveReturn(u)
    \/ \E u \in DOMAIN futures : CleanupExists(u)
    \/ \E u \in DOMAIN futures : CleanupRmtree(u)
    \/ CleanupJoin

SpecCleanup == InitCleanup /\ [][NextCleanup]_vars

\* main(), lines 44-49: one of the two operations. The runs that can delete
\* a mirror: an update that does not keep the discarded games, or a cleanup;
\* the remote service starts without a folder.
InitRemoval ==
    \/ Init /\ ~keep_discarded_games /\ Len(folders) <= 1
    \/ InitCleanup /\ remote = {}

NextMain == Next \/ NextCleanup

SpecRemoval == InitRemoval /\ [][NextMain]_vars

(* --------------------------------------------- the API client alone *)
\* SyncFolder.__init__; an argument that is None or empty is "".
SyncFolder(folder_name, folder_id, secret, config_secret) ==
    [name |-> folder_name,
     id |-> IF folder_id # "" THEN folder_id ELSE folder_name,
     secret |-> IF secret # "" THEN secret ELSE config_secret]

\* The URL templates, as the sequence of their query parameters; the
\* configured options are one opaque fragment.
API_URL_BASE(method) == <<>> \o << <<"method", method>> >>
API_FOLDER_URL(method, dir, secret, options) ==
    API_URL_BASE(method) \o << <<"dir", dir>>, <<"secret", secret>>, <<"options", options>> >>
API_SIMPLE_URL(method, dir, options) ==
    API_URL_BASE(method) \o << <<"dir", dir>>, <<"options", options>> >>

\* Lines 142-157 of _make_sync_request.
make_url_always_secret(f, method, options, force) ==
    LET url == API_FOLDER_URL(method, f.id, f.secret, options)
    IN  IF force THEN Append(url, <<"force", "1">>) ELSE url

make_url(f, method, options, force) ==
    LET url == IF f.secret # ""
               THEN API_FOLDER_URL(method, f.id, f.secret, options)
               ELSE API_SIMPLE_URL(method, f.id, options)
    IN  IF force THEN Append(url, <<"force", "1">>) ELSE url

\* sync, update_prefs and remove: only remove passes force=True.
force_of(method) == method = "remove_folder"

Secrets == {"", "KEY"}
ConfigSecrets == {"", "CFG"}
SyncOptions == {"", "opt=1"}

\* One folder, built from any arguments; no run of main().
InitApi ==
    /\ folder \in {SyncFolder(n, d, k, c) :
                     n \in Ids, d \in Ids \cup {""}, k \in Secrets, c \in ConfigSecrets}
    /\ request = NoRequest
    /\ action = "none" /\ keep_discarded_games = FALSE /\ response = ""
    /\ folders = <<>> /\ game_deny_list = {} /\ games = <<>> /\ discarded = <<>>
    /\ mirror = {} /\ remote = {} /\ pc = "api" /\ i = 1
    /\ system_folders = <<>> /\ allow_list = <<>> /\ deny_list = <<>>
    /\ game_folders = <<>> /\ system_ops = <<>> /\ deny_ops = <<>> /\ futures = <<>>

\* Lines 141-161: the URL is built and the request is sent.
MakeRequest(method) ==
    /\ pc = "api" /\ request.stage = "none"
    /\ \E options \in SyncOptions :
         request' = [stage |-> "sent", method |-> method,
                     url |-> make_url(folder, method, options, force_of(method)),
                     outcome |-> "none", result |-> "none"]
    /\ UNCHANGED <<inputs, folder, remote, mirror, pc, i, lists, system_ops, deny_ops, futures>>

\* Lines 159-189: the response, or the exception, and the returned value.
Respond ==
    /\ pc = "api" /\ request.stage = "sent"
    /\ \E outcome \in Outcomes :
         request' = [request EXCEPT !.stage = "returned", !.outcome = outcome,
                                    !.result = make_sync_request(outcome)]
    /\ UNCHANGED <<inputs, folder, remote, mirror, pc, i, lists, system_ops, deny_ops, futures>>

NextApi ==
    \/ \E method \in Methods : MakeRequest(method)
    \/ Respond

SpecApi == InitApi /\ [][NextApi]_vars

(* ------------------------------------------------------------- claims *)
SystemPhaseOver == pc \notin {"start", "system", "system_call"}
AllowPhaseOver == SystemPhaseOver /\ pc # "allow"

\* The folder a unit of work of the pool targets.
FolderOf(u) == IF action = "update" THEN allow_list[u] ELSE game_folders[u]

RemoveCalled(op) == op.calls["remove_folder"] > 0
DeletionAttempted(op) == op.pc = "rmtree" \/ op.rmtree > 0
SyncFailed(op) == op.result["add_folder"] \in {"False", "raise"}

SystemCalls == [m \in Methods |-> IF m = "add_folder" THEN 1 ELSE 0]
AllowCalls == [m \in Methods |-> IF m = "remove_folder" THEN 0 ELSE 1]

\* C1: in the deny phase the local mirror of a deny_list folder is deleted
\* only if the Remove call of that folder returned success.
C1_DeleteOnlyAfterRemoveSucceeded ==
    \A k \in DOMAIN deny_ops :
        DeletionAttempted(deny_ops[k]) => deny_ops[k].result["remove_folder"] = "True"

\* C2: no id of allow_list is in the denylist, every denylisted id of the
\* allow-rows is in deny_list, and the two lists share no id.
C2_ListsPartition ==
    AllowPhaseOver \/ pc = "allow" =>
        /\ Range(allow_list) \cap game_deny_list = {}
        /\ (game_deny_list \cap Range(games)) \subseteq Range(deny_list)
        /\ Range(allow_list) \cap Range(deny_list) = {}

\* C3: a failed deletion of one deny_list mirror does not abort the run, and
\* every later deny_list folder still gets its Remove call.
C3_DeletionFailureContained ==
    \A k \in DOMAIN deny_ops :
        deny_ops[k].pc = "raised" =>
            /\ pc # "aborted"
            /\ pc = "done" => \A j \in DOMAIN deny_ops : j > k => RemoveCalled(deny_ops[j])

\* C4: when the Sync call of one folder fails with a transport error, every
\* other folder of the phase still gets all its calls: Sync for a system
\* folder, Sync and UpdatePrefs for an allow_list folder.
C4_SyncFailureIsolated ==
    /\ SystemPhaseOver =>
         \A v \in DOMAIN system_ops : SyncFailed(system_ops[v]) =>
             \A u \in DOMAIN system_ops \ {v} : system_ops[u].calls = SystemCalls
    /\ AllowPhaseOver =>
         \A v \in DOMAIN futures : SyncFailed(futures[v]) =>
             /\ Len(futures) = Len(allow_list)
             /\ \A u \in DOMAIN futures \ {v} : futures[u].calls = AllowCalls

\* A finished run in which the Sync of the first system folder and of the
\* first allow_list folder failed, each with a sibling after it.
C4_Witness ==
    /\ pc = "done"
    /\ Len(system_ops) = 2 /\ SyncFailed(system_ops[1])
    /\ Len(futures) = 2 /\ SyncFailed(futures[1])

\* C5: no two units of work of the pool that target the same folder id are
\* executing at the same time.
C5_SameIdNeverConcurrent ==
    \A u, v \in DOMAIN futures :
        u # v /\ Executing(futures[u]) /\ Executing(futures[v]) => FolderOf(u) # FolderOf(v)

\* C6: no allow-phase call starts before every system Sync has returned, and
\* no deny-phase action starts before every allow-phase unit has finished.
C6_PhasesSequential ==
    /\ \A u \in DOMAIN futures : futures[u].pc # "pending" =>
         /\ Len(system_ops) = Len(folders)
         /\ \A k \in DOMAIN system_ops : system_ops[k].pc = "done"
    /\ \A k \in DOMAIN deny_ops : deny_ops[k].pc # "pending" =>
         /\ Len(futures) = Len(allow_list)
         /\ \A u \in DOMAIN futures : Finished(futures[u])

\* The deny phase is acting after a system phase and an allow phase that both
\* had a folder, one of whose calls failed.
C6_Witness ==
    /\ \E k \in DOMAIN deny_ops : deny_ops[k].pc = "call"
    /\ \E k \in DOMAIN system_ops : SyncFailed(system_ops[k])
    /\ \E u \in DOMAIN futures : SyncFailed(futures[u])

\* C7: the UpdatePrefs call of a unit of work is never issued before the Sync
\* call of that unit has returned.
C7_PrefsAfterSync ==
    \A u \in DOMAIN futures :
        futures[u].calls["set_folder_prefs"] > 0 =>
            /\ futures[u].calls["add_folder"] = 1
            /\ futures[u].result["add_folder"] # "none"

\* Two workers are running, one with its UpdatePrefs call in flight and the
\* other with its Sync call in flight.
C7_Witness ==
    \E u, v \in DOMAIN futures :
        /\ futures[u].pc = "call" /\ futures[u].calls["set_folder_prefs"] = 1
        /\ futures[v].pc = "call" /\ futures[v].calls["set_folder_prefs"] = 0

CleanupConfirmed == action = "cleanup" /\ lower(response) = "yes" /\ pc = "done"

C9_SystemFolderNeverRemoved ==
    /\ SystemPhaseOver => \A k \in DOMAIN system_ops : system_ops[k].calls["add_folder"] > 0
    /\ \A k \in DOMAIN deny_ops :
         deny_list[k] \in Range(system_folders) =>
             ~RemoveCalled(deny_ops[k]) /\ ~DeletionAttempted(deny_ops[k])

\* C10: with keep_discarded_games set no Remove call is issued and no mirror
\* is deleted, and the system and allow phases issue all their calls.
C10_KeepDiscardedSkipsDeny ==
    keep_discarded_games =>
        /\ \A k \in DOMAIN deny_ops : deny_ops[k] = NewOp
        /\ pc \notin {"deny", "deny_call", "deny_exists", "deny_rmtree", "aborted"}
        /\ pc = "done" =>
             /\ Len(system_ops) = Len(folders)
             /\ \A k \in DOMAIN system_ops : system_ops[k].calls = SystemCalls
             /\ Len(futures) = Len(allow_list)
             /\ \A u \in DOMAIN futures : futures[u].calls = AllowCalls

\* A finished run with the flag set, a system folder, an allow_list folder and
\* a deny_list folder whose mirror is on disk.
C10_Witness ==
    /\ keep_discarded_games /\ pc = "done"
    /\ system_ops # <<>> /\ futures # <<>>
    /\ \E k \in DOMAIN deny_list : deny_list[k] \in mirror

\* Every call of the unit that was issued returned True.
AllReturnedTrue(op) == \A m \in Methods : op.calls[m] > 0 => op.result[m] = "True"

\* The run ended after its three phases and no call and no deletion failed.
CleanRun ==
    /\ pc = "done" /\ ~keep_discarded_games
    /\ \A k \in DOMAIN system_ops : AllReturnedTrue(system_ops[k])
    /\ \A u \in DOMAIN futures : AllReturnedTrue(futures[u])
    /\ \A k \in DOMAIN deny_ops : AllReturnedTrue(deny_ops[k])

\* C11: after a run without keep_discarded_games in which nothing failed,
\* from any state of the remote service, every system folder and every
\* allow_list folder is registered remotely, no deny_list folder is, and no
\* deny_list folder has a local mirror (the state a second run would have to
\* leave unchanged).
C11_RemoteMatchesDesiredState ==
    CleanRun =>
        /\ Range(system_folders) \cup Range(allow_list) \subseteq remote
        /\ Range(deny_list) \cap remote = {}
        /\ Range(deny_list) \cap mirror = {}

HasKey(url, key) == \E k \in DOMAIN url : url[k][1] = key

\* C14: the request carries a secret parameter if and only if the secret of
\* the folder is non-empty, for every method; without a secret the URL has
\* the parameters of the no-secret template only.
C14_SecretParameterIffSecret ==
    request.stage # "none" =>
        /\ HasKey(request.url, "secret") <=> folder.secret # ""
        /\ folder.secret # "" =>
             \E k \in DOMAIN request.url : request.url[k] = <<"secret", folder.secret>>
        /\ folder.secret = "" =>
             \A k \in DOMAIN request.url : request.url[k][1] \in {"method", "dir", "options", "force"}

\* A remove request of a folder without a secret, built with force.
C14_Witness ==
    /\ request.stage = "sent" /\ request.method = "remove_folder"
    /\ folder.secret = "" /\ HasKey(request.url, "force")

InFlight(ops) == {k \in DOMAIN ops : Executing(ops[k])}
ByMainThread == pc \in {"deny_call", "deny_exists", "deny_rmtree"}

C15_DeleteAfterRemoveReturned ==
    /\ \A k \in DOMAIN deny_ops :
         DeletionAttempted(deny_ops[k]) =>
             /\ deny_ops[k].calls["remove_folder"] = 1
             /\ deny_ops[k].result["remove_folder"] # "none"
    /\ action = "cleanup" =>
         \A u \in DOMAIN futures :
             DeletionAttempted(futures[u]) =>
                 /\ futures[u].calls["remove_folder"] = 1
                 /\ futures[u].result["remove_folder"] # "none"

\* Both operations have deleted a mirror after a Remove call that failed.
C15_Witness ==
    \/ \E k \in DOMAIN deny_ops :
          /\ deny_ops[k].rmtree = 1 /\ deny_ops[k].pc = "done"
          /\ deny_ops[k].result["remove_folder"] = "False"
          /\ deny_list[k] \notin mirror
          /\ pc = "done"
    \/ /\ action = "cleanup" /\ pc = "done"
       /\ \E u \in DOMAIN futures :
             /\ futures[u].rmtree = 1 /\ futures[u].pc = "done"
             /\ futures[u].result["remove_folder"] = "False"
             /\ game_folders[u] \notin mirror

AnyFailed(op) == \E m \in Methods : op.result[m] = "False"

RECURSIVE Pick(_, _)
Pick(s, S) ==
    IF s = <<>> THEN <<>>
    ELSE (IF Head(s) \in S THEN <<Head(s)>> ELSE <<>>) \o Pick(Tail(s), S)

\* C17: deny_list is the discard-rows in their order followed by the
\* denylisted allow-rows in their order, allow_list is the other allow-rows
\* in their order, and in the deny phase no moved folder gets its Remove call
\* before every discard-row folder has got its own.
C17_DenyListOrder ==
    /\ AllowPhaseOver \/ pc = "allow" =>
         /\ deny_list = discarded \o Pick(games, game_deny_list)
         /\ allow_list = Pick(games, Ids \ game_deny_list)
    /\ \A j, k \in DOMAIN deny_ops :
         j <= Len(discarded) /\ Len(discarded) < k /\ RemoveCalled(deny_ops[k]) =>
             /\ RemoveCalled(deny_ops[j])
             /\ deny_ops[j].result["remove_folder"] # "none"

\* The Remove call of a moved folder is in flight, after the one of a
\* discard-row folder with another id has returned.
C17_Witness ==
    /\ pc = "deny_call"
    /\ Len(discarded) >= 1 /\ i > Len(discarded)
    /\ deny_list[i] \in game_deny_list
    /\ deny_list[1] # deny_list[i]
    /\ deny_ops[1].result["remove_folder"] # "none"

\* C18: in the allow phase a Sync call that returned failure does not end
\* its unit of work: the unit goes on to its UpdatePrefs call, and has issued
\* it once when it is finished.
C18_PrefsDespiteFailedSync ==
    action = "update" =>
        \A u \in DOMAIN futures :
            futures[u].result["add_folder"] = "False" =>
                /\ futures[u].step = 2 => futures[u].pc \in {"ready", "call"}
                /\ Finished(futures[u]) =>
                     /\ futures[u].pc = "done"
                     /\ futures[u].calls["set_folder_prefs"] = 1
                     /\ futures[u].result["set_folder_prefs"] # "none"

\* A unit whose Sync failed has had its UpdatePrefs call answered with
\* success.
C18_Witness ==
    /\ action = "update"
    /\ \E u \in DOMAIN futures :
         /\ futures[u].result["add_folder"] = "False"
         /\ futures[u].calls["set_folder_prefs"] = 1
         /\ futures[u].result["set_folder_prefs"] = "True"
         /\ futures[u].pc = "done"

\* The answers that are the word yes, whatever the case of the letters.
YesIgnoringCase == {"yes", "YES"}

\* C19: when the answer to the prompt of cleanup is not the word yes, in any
\* case of the letters, no step of the run reads the catalog, starts a unit
\* of work, issues a call, or changes the remote service or a local mirror.
C19_CleanupGatedByAnswer ==
    [][action = "cleanup" /\ response \notin YesIgnoringCase =>
          /\ game_folders' = <<>>
          /\ futures' = <<>>
          /\ request' = NoRequest
          /\ remote' = remote
          /\ mirror' = mirror]_vars

\* A cleanup that was not confirmed is over; there were catalog rows,
\* mirrors on disk and folders registered with the service.
C19_Witness ==
    /\ action = "cleanup" /\ response \notin YesIgnoringCase
    /\ pc = "done"
    /\ games # <<>> /\ discarded # <<>>
    /\ mirror = Ids /\ remote = Ids
    /\ futures = <<>>

====
